---- MODULE Spec2Model ----
(***************************************************************************)
(* Scene lifecycle and driver loop of pygame-scene-manager.                *)
(*                                                                         *)
(*   Scene, PlayScene1, EndScene   src/scenes/*.py                         *)
(*   Game (registry + run loop)    src/game.py                             *)
(*                                                                         *)
(* TitleScene, PlayScene2 and SpecialScene are imported by game.py but     *)
(* their files are not part of src/; their overrides are modelled from     *)
(* the specification (spec.md sections 3, 4.1 and 8).                      *)
(***************************************************************************)
EXTENDS Integers, Sequences, FiniteSets, TLC

\* Longest list of events drained from the queue in one frame.
MaxEvents == 2

--------------------------------------------------------------------------
\* Values

SceneNames == {"title", "play1", "play2", "special", "end"}

\* Python's None, and an attribute that has not been assigned yet.
None == "None"
Unset == "unset"

\* The class registered under each name (game.py, self.scenes).
SceneClass ==
    [title |-> "TitleScene", play1 |-> "PlayScene1", play2 |-> "PlayScene2",
     special |-> "SpecialScene", end |-> "EndScene"]

\* The keyword arguments each registered scene is constructed with; a key
\* that is missing takes the default of Scene.__init__ (True).
GameKwargs ==
    [title   |-> [cleanup_on_terminate |-> TRUE,  delay_asset_loading |-> FALSE],
     play1   |-> [cleanup_on_terminate |-> TRUE,  delay_asset_loading |-> TRUE],
     play2   |-> [cleanup_on_terminate |-> TRUE,  delay_asset_loading |-> TRUE],
     special |-> [cleanup_on_terminate |-> FALSE, delay_asset_loading |-> FALSE],
     end     |-> [cleanup_on_terminate |-> TRUE,  delay_asset_loading |-> TRUE]]

Kwargs == [cleanup_on_terminate : BOOLEAN, delay_asset_loading : BOOLEAN]

\* Input events: a type and, for key events, a key code.
Events ==
    {[type |-> "QUIT", key |-> "none"],
     [type |-> "KEYDOWN", key |-> "K_RIGHT"],
     [type |-> "KEYDOWN", key |-> "K_UP"],
     [type |-> "KEYDOWN", key |-> "K_SPACE"],
     [type |-> "KEYDOWN", key |-> "K_ESCAPE"],
     [type |-> "KEYUP", key |-> "K_RIGHT"]}

\* The keys of the key-state snapshot that the driver looks at; the
\* snapshot is the set of those that are held.
HeldKeys == {"K_LCTRL", "K_RCTRL", "K_q"}

RECURSIVE SeqsUpTo(_, _)
SeqsUpTo(S, n) ==
    IF n = 0 THEN {<< >>}
    ELSE LET shorter == SeqsUpTo(S, n - 1)
         IN  shorter \cup {Append(q, e) : q \in {x \in shorter : Len(x) = n - 1}, e \in S}

EventLists == SeqsUpTo(Events, MaxEvents)

--------------------------------------------------------------------------
\* State

VARIABLES
    scenes,           \* name -> the scene object's attributes (and history)
    active_scene,     \* Game.active_scene: a name, or None
    previous_scene,   \* Game.previous_scene: a name, or Unset
    running,          \* local of Game.run
    pressed_keys,     \* local of Game.run: the key-state snapshot
    drained,          \* the list pygame.event.get() returned this frame
    filtered_events,  \* local of Game.run
    calls,            \* scene methods invoked so far in this frame, in order
    pc                \* position of the program

vars == <<scenes, active_scene, previous_scene, running, pressed_keys,
          drained, filtered_events, calls, pc>>

\* A "world" is what the scene methods read and write: the scene objects,
\* the game's previous_scene and the log of calls.
World == [scenes |-> scenes, previous_scene |-> previous_scene, calls |-> calls]

Log(w, method, s) == [w EXCEPT !.calls = Append(@, <<method, s>>)]

--------------------------------------------------------------------------
\* Scene (src/scenes/scene.py) and its subclasses
\*
\* A scene object is a record of its attributes:
\*   cleanup_on_terminate, delay_asset_loading, assets_loaded, terminated,
\*   next_scene (Unset until enter() assigns it), font_xl (Unset until
\*   load_assets() assigns it, None after cleanup());
\* and of its history, which the program does not store:
\*   loads        load_assets() calls since construction or the last cleanup()
\*   ever_loaded  load_assets() has been called on it
\*   entered      enter() has been called on it
\*   marked       terminated has been assigned True since the last enter()

\* PlayScene1.load_assets: self.font_xl = pygame.font.Font(None, 96)
PlayScene1_load_assets(w, s) ==
    [Log(w, "load_assets", s) EXCEPT
        !.scenes[s].font_xl = "Font",
        !.scenes[s].loads = @ + 1,
        !.scenes[s].ever_loaded = TRUE]

\* EndScene.load_assets: the same statement.
EndScene_load_assets(w, s) ==
    [Log(w, "load_assets", s) EXCEPT
        !.scenes[s].font_xl = "Font",
        !.scenes[s].loads = @ + 1,
        !.scenes[s].ever_loaded = TRUE]

\* load_assets of TitleScene, PlayScene2 and SpecialScene: acquires the
\* scene's resources (spec.md 4.1); the flag is left to enter(), as in the
\* two subclasses above.
Other_load_assets(w, s) ==
    [Log(w, "load_assets", s) EXCEPT
        !.scenes[s].font_xl = "Font",
        !.scenes[s].loads = @ + 1,
        !.scenes[s].ever_loaded = TRUE]

\* self.load_assets(): dispatch on the object's class.
load_assets(w, s) ==
    CASE SceneClass[s] = "PlayScene1" -> PlayScene1_load_assets(w, s)
      [] SceneClass[s] = "EndScene"   -> EndScene_load_assets(w, s)
      [] OTHER                        -> Other_load_assets(w, s)

\* A cleanup that drops the font but leaves assets_loaded alone, which is
\* what a subclass gets when it frees its resources on top of the inherited
\* Scene.cleanup (scene.py 133-150, a bare pass).
PlayScene1_cleanup_keeps_flag(w, s) ==
    [Log(w, "cleanup", s) EXCEPT
        !.scenes[s].font_xl = None,
        !.scenes[s].loads = 0]

\* PlayScene1.cleanup: drops the font and clears assets_loaded.
PlayScene1_cleanup(w, s) ==
    [Log(w, "cleanup", s) EXCEPT
        !.scenes[s].font_xl = None,
        !.scenes[s].assets_loaded = FALSE,
        !.scenes[s].loads = 0]

\* EndScene.cleanup: the same statements.
EndScene_cleanup(w, s) ==
    [Log(w, "cleanup", s) EXCEPT
        !.scenes[s].font_xl = None,
        !.scenes[s].assets_loaded = FALSE,
        !.scenes[s].loads = 0]

\* cleanup of TitleScene, PlayScene2 and SpecialScene: releases what
\* load_assets acquired and resets assets_loaded (spec.md 4.1).
Other_cleanup(w, s) ==
    [Log(w, "cleanup", s) EXCEPT
        !.scenes[s].font_xl = None,
        !.scenes[s].assets_loaded = FALSE,
        !.scenes[s].loads = 0]

\* self.cleanup(): dispatch on the object's class.
cleanup(w, s) ==
    CASE SceneClass[s] = "PlayScene1" -> PlayScene1_cleanup(w, s)
      [] SceneClass[s] = "EndScene"   -> EndScene_cleanup(w, s)
      [] OTHER                        -> Other_cleanup(w, s)

\* Scene.__init__(game, **kwargs), reached through super().__init__ by
\* every subclass: the object before, and after, its conditional load.
NewScene(kw) ==
    [cleanup_on_terminate |-> kw.cleanup_on_terminate,
     delay_asset_loading  |-> kw.delay_asset_loading,
     assets_loaded        |-> FALSE,
     terminated           |-> FALSE,
     next_scene           |-> Unset,
     font_xl              |-> Unset,
     loads                |-> 0,
     ever_loaded          |-> FALSE,
     entered              |-> FALSE,
     marked               |-> FALSE]

\* Scene.__init__ with the test on delay_asset_loading left out.
Scene_init_always_loads(w, s, kw) ==
    load_assets([w EXCEPT !.scenes[s] = NewScene(kw)], s)

Scene_init(w, s, kw) ==
    LET w1 == [w EXCEPT !.scenes[s] = NewScene(kw)]
    IN  IF ~kw.delay_asset_loading THEN load_assets(w1, s) ELSE w1

\* Scene.enter that loads but leaves assets_loaded as it was.
Scene_enter_forgets_flag(w, s) ==
    LET w1 == [Log(w, "enter", s) EXCEPT
                  !.scenes[s].next_scene = s,
                  !.scenes[s].entered = TRUE,
                  !.scenes[s].marked = FALSE]
    IN  IF ~w1.scenes[s].assets_loaded THEN load_assets(w1, s) ELSE w1

\* Scene.enter with "self.next_scene = self" left out.
Scene_enter_keeps_next_scene(w, s) ==
    LET w1 == [Log(w, "enter", s) EXCEPT !.scenes[s].entered = TRUE,
                                         !.scenes[s].marked = FALSE]
    IN  IF ~w1.scenes[s].assets_loaded
        THEN [load_assets(w1, s) EXCEPT !.scenes[s].assets_loaded = TRUE]
        ELSE w1

\* Scene.enter with the test on assets_loaded inverted.
Scene_enter_loads_when_loaded(w, s) ==
    LET w1 == [Log(w, "enter", s) EXCEPT
                  !.scenes[s].next_scene = s,
                  !.scenes[s].entered = TRUE,
                  !.scenes[s].marked = FALSE]
    IN  IF w1.scenes[s].assets_loaded
        THEN [load_assets(w1, s) EXCEPT !.scenes[s].assets_loaded = TRUE]
        ELSE w1

\* Scene.enter that also clears terminated.
Scene_enter_resets_terminated(w, s) ==
    LET w1 == [Log(w, "enter", s) EXCEPT
                  !.scenes[s].next_scene = s,
                  !.scenes[s].terminated = FALSE,
                  !.scenes[s].entered = TRUE,
                  !.scenes[s].marked = FALSE]
    IN  IF ~w1.scenes[s].assets_loaded
        THEN [load_assets(w1, s) EXCEPT !.scenes[s].assets_loaded = TRUE]
        ELSE w1

\* Scene.enter
Scene_enter(w, s) ==
    LET w1 == [Log(w, "enter", s) EXCEPT
                  !.scenes[s].next_scene = s,
                  !.scenes[s].entered = TRUE,
                  !.scenes[s].marked = FALSE]
    IN  IF ~w1.scenes[s].assets_loaded
        THEN [load_assets(w1, s) EXCEPT !.scenes[s].assets_loaded = TRUE]
        ELSE w1

\* Scene.exit: pass
Scene_exit(w, s) == Log(w, "exit", s)

\* Scene.terminate
Scene_terminate(w, s) ==
    LET w1 == Log(w, "terminate", s)
    IN  IF w1.scenes[s].cleanup_on_terminate THEN cleanup(w1, s) ELSE w1

\* One iteration of the "for event in events" loop of each process_input.
PlayScene1_on_event(w, s, event) ==
    IF event.type = "KEYDOWN"
    THEN IF event.key = "K_RIGHT"
         THEN [w EXCEPT !.scenes[s].next_scene = "play2",
                        !.scenes[s].terminated = TRUE,
                        !.scenes[s].marked = TRUE]
         ELSE IF event.key = "K_UP"
              THEN [w EXCEPT !.scenes[s].next_scene = "special"]
              ELSE w
    ELSE w

EndScene_on_event(w, s, event) ==
    IF event.type = "KEYDOWN" /\ event.key = "K_RIGHT"
    THEN [w EXCEPT !.scenes[s].next_scene = "title",
                   !.scenes[s].terminated = TRUE,
                   !.scenes[s].marked = TRUE]
    ELSE w

\* TitleScene: key-down SPACE requests the title scene's successor
\* (spec.md 8) and the scene is finished; a scene ends the application by
\* making its successor absent (spec.md 3, 4.3).
TitleScene_on_event(w, s, event) ==
    IF event.type = "KEYDOWN"
    THEN IF event.key = "K_SPACE"
         THEN [w EXCEPT !.scenes[s].next_scene = "play1",
                        !.scenes[s].terminated = TRUE,
                        !.scenes[s].marked = TRUE]
         ELSE IF event.key = "K_ESCAPE"
              THEN [w EXCEPT !.scenes[s].next_scene = None]
              ELSE w
    ELSE w

\* PlayScene2: the second gameplay scene, between play1 and end, with the
\* same detour to the special scene.
PlayScene2_on_event(w, s, event) ==
    IF event.type = "KEYDOWN"
    THEN IF event.key = "K_RIGHT"
         THEN [w EXCEPT !.scenes[s].next_scene = "end",
                        !.scenes[s].terminated = TRUE,
                        !.scenes[s].marked = TRUE]
         ELSE IF event.key = "K_UP"
              THEN [w EXCEPT !.scenes[s].next_scene = "special"]
              ELSE w
    ELSE w

\* SpecialScene: kept warm (cleanup_on_terminate False), suspends the
\* scene it was entered from and returns to it (game.previous_scene).
SpecialScene_on_event(w, s, event) ==
    IF event.type = "KEYDOWN" /\ event.key = "K_SPACE" /\ w.previous_scene # Unset
    THEN [w EXCEPT !.scenes[s].next_scene = w.previous_scene]
    ELSE w

on_event(w, s, event) ==
    CASE SceneClass[s] = "PlayScene1"   -> PlayScene1_on_event(w, s, event)
      [] SceneClass[s] = "EndScene"     -> EndScene_on_event(w, s, event)
      [] SceneClass[s] = "TitleScene"   -> TitleScene_on_event(w, s, event)
      [] SceneClass[s] = "PlayScene2"   -> PlayScene2_on_event(w, s, event)
      [] SceneClass[s] = "SpecialScene" -> SpecialScene_on_event(w, s, event)

RECURSIVE for_event_in(_, _, _)
for_event_in(w, s, events) ==
    IF events = << >> THEN w
    ELSE for_event_in(on_event(w, s, Head(events)), s, Tail(events))

\* self.process_input(events, pressed_keys); no subclass reads pressed_keys.
process_input(w, s, events) == for_event_in(Log(w, "process_input", s), s, events)

\* update() of every subclass: pass
update(w, s) == Log(w, "update", s)

\* render(): draws with self.font_xl; the scene's state is not changed.
render(w, s) == Log(w, "render", s)

--------------------------------------------------------------------------
\* Game (src/game.py)

\* is_quit_event that looks at the left Ctrl key only.
is_quit_event_left_ctrl_only(event, keys) ==
    LET x_out == event.type = "QUIT"
        ctrl  == "K_LCTRL" \in keys
        q     == "K_q" \in keys
    IN  x_out \/ (ctrl /\ q)

\* Game.is_quit_event
is_quit_event(event, keys) ==
    LET x_out == event.type = "QUIT"
        ctrl  == ("K_LCTRL" \in keys) \/ ("K_RCTRL" \in keys)
        q     == "K_q" \in keys
    IN  x_out \/ (ctrl /\ q)

\* The event loop with "running = not is_quit_event(...)" as its test: the
\* last event decides.
RECURSIVE for_event_in_queue_last_decides(_, _, _)
for_event_in_queue_last_decides(loc, events, keys) ==
    IF events = << >> THEN loc
    ELSE LET event == Head(events)
             next  == IF event.type = "QUIT"
                         \/ (("K_LCTRL" \in keys \/ "K_RCTRL" \in keys) /\ "K_q" \in keys)
                      THEN [loc EXCEPT !.running = FALSE]
                      ELSE [loc EXCEPT !.running = TRUE,
                                       !.filtered_events = Append(@, event)]
         IN  for_event_in_queue_last_decides(next, Tail(events), keys)

\* The event loop with each kept event put at the front of the list.
RECURSIVE for_event_in_queue_prepends(_, _, _)
for_event_in_queue_prepends(loc, events, keys) ==
    IF events = << >> THEN loc
    ELSE LET event == Head(events)
             next  == IF event.type = "QUIT"
                         \/ (("K_LCTRL" \in keys \/ "K_RCTRL" \in keys) /\ "K_q" \in keys)
                      THEN [loc EXCEPT !.running = FALSE]
                      ELSE [loc EXCEPT !.filtered_events = <<event>> \o @]
         IN  for_event_in_queue_prepends(next, Tail(events), keys)

\* The "for event in pygame.event.get()" loop of Game.run, from the values
\* of running and filtered_events before it to their values after it.
RECURSIVE for_event_in_queue(_, _, _)
for_event_in_queue(loc, events, keys) ==
    IF events = << >> THEN loc
    ELSE LET event == Head(events)
             next  == IF is_quit_event(event, keys)
                      THEN [loc EXCEPT !.running = FALSE]
                      ELSE [loc EXCEPT !.filtered_events = Append(@, event)]
         IN  for_event_in_queue(next, Tail(events), keys)

\* Game.__init__: the registry, built in the order of the dict literal, then
\* the title scene made active and entered.
RegistryOrder == <<"title", "play1", "play2", "special", "end">>

RECURSIVE construct(_, _, _)
construct(w, names, kw) ==
    IF names = << >> THEN w
    ELSE construct(Scene_init(w, Head(names), kw[Head(names)]), Tail(names), kw)

Game_init(kw) ==
    LET blank == [scenes |-> [s \in SceneNames |-> NewScene(kw[s])],
                  previous_scene |-> Unset,
                  calls |-> << >>]
    IN  Scene_enter(construct(blank, RegistryOrder, kw), "title")

\* The state in which main() calls game.run(), for a registry built with
\* the keyword arguments kw.
InitWith(kw) ==
    /\ scenes = Game_init(kw).scenes
    /\ active_scene = "title"
    /\ previous_scene = Unset
    /\ running = TRUE
    /\ pressed_keys = {}
    /\ drained = << >>
    /\ filtered_events = << >>
    /\ calls = << >>
    /\ pc = "while"

Init == InitWith(GameKwargs)

\* Lines 48-57 with the key state also tested on its own, outside the
\* loop over the drained events.
EventLoop_quits_on_keys_alone ==
    /\ pc = "while"
    /\ running
    /\ \E keys \in SUBSET HeldKeys, events \in EventLists :
          LET loc == for_event_in_queue(
                        [running |-> running, filtered_events |-> << >>],
                        events, keys)
              held == ("K_LCTRL" \in keys \/ "K_RCTRL" \in keys) /\ "K_q" \in keys
          IN  /\ pressed_keys' = keys
              /\ drained' = events
              /\ running' = (loc.running /\ ~held)
              /\ filtered_events' = loc.filtered_events
    /\ calls' = << >>
    /\ pc' = "process_input"
    /\ UNCHANGED <<scenes, active_scene, previous_scene>>

\* Lines 48-57: the loop test succeeds, the key state is read, the event
\* queue is drained and filtered.
EventLoop ==
    /\ pc = "while"
    /\ running
    /\ \E keys \in SUBSET HeldKeys, events \in EventLists :
          LET loc == for_event_in_queue(
                        [running |-> running, filtered_events |-> << >>],
                        events, keys)
          IN  /\ pressed_keys' = keys
              /\ drained' = events
              /\ running' = loc.running
              /\ filtered_events' = loc.filtered_events
    /\ calls' = << >>
    /\ pc' = "process_input"
    /\ UNCHANGED <<scenes, active_scene, previous_scene>>

\* Line 60
ProcessInput ==
    /\ pc = "process_input"
    /\ LET w == process_input(World, active_scene, filtered_events)
       IN  /\ scenes' = w.scenes
           /\ calls' = w.calls
    /\ pc' = "update"
    /\ UNCHANGED <<active_scene, previous_scene, running, pressed_keys,
                   drained, filtered_events>>

\* Line 61 with render() called in the place of update().
Update_calls_render ==
    /\ pc = "update"
    /\ LET w == render(World, active_scene)
       IN  /\ scenes' = w.scenes
           /\ calls' = w.calls
    /\ pc' = "render"
    /\ UNCHANGED <<active_scene, previous_scene, running, pressed_keys,
                   drained, filtered_events>>

\* Line 61
Update ==
    /\ pc = "update"
    /\ LET w == update(World, active_scene)
       IN  /\ scenes' = w.scenes
           /\ calls' = w.calls
    /\ pc' = "render"
    /\ UNCHANGED <<active_scene, previous_scene, running, pressed_keys,
                   drained, filtered_events>>

\* Line 62: rendering with no font (font_xl is None or missing) raises
\* AttributeError, which ends the program.
Render ==
    /\ pc = "render"
    /\ LET w == render(World, active_scene)
       IN  /\ scenes' = w.scenes
           /\ calls' = w.calls
    /\ pc' = IF scenes[active_scene].font_xl = "Font" THEN "scene_change" ELSE "error"
    /\ UNCHANGED <<active_scene, previous_scene, running, pressed_keys,
                   drained, filtered_events>>

\* The scene change with the incoming scene entered before the outgoing
\* one is cleaned up.
scene_change_enters_first(w, current_scene) ==
    LET next == w.scenes[current_scene].next_scene
    IN  IF current_scene # next
        THEN LET w1 == Scene_exit([w EXCEPT !.previous_scene = current_scene],
                                  current_scene)
             IN  IF next = None
                 THEN [active_scene |-> next, world |-> w1, raised |-> TRUE]
                 ELSE LET w2 == Scene_enter(w1, next)
                      IN  [active_scene |-> next,
                           world |-> IF w2.scenes[current_scene].terminated
                                     THEN cleanup(w2, current_scene)
                                     ELSE w2,
                           raised |-> FALSE]
        ELSE [active_scene |-> next, world |-> w, raised |-> FALSE]

\* The scene change without the identity test of line 68.
scene_change_unconditional(w, current_scene) ==
    LET next == w.scenes[current_scene].next_scene
        w1 == Scene_exit([w EXCEPT !.previous_scene = current_scene],
                         current_scene)
        w2 == IF w1.scenes[current_scene].terminated
              THEN cleanup(w1, current_scene)
              ELSE w1
    IN  IF next = None
        THEN [active_scene |-> next, world |-> w2, raised |-> TRUE]
        ELSE [active_scene |-> next, world |-> Scene_enter(w2, next),
              raised |-> FALSE]

\* The scene change without the test on terminated of line 72.
scene_change_always_cleans(w, current_scene) ==
    LET next == w.scenes[current_scene].next_scene
    IN  IF current_scene # next
        THEN LET w1 == Scene_exit([w EXCEPT !.previous_scene = current_scene],
                                  current_scene)
                 w2 == cleanup(w1, current_scene)
             IN  IF next = None
                 THEN [active_scene |-> next, world |-> w2, raised |-> TRUE]
                 ELSE [active_scene |-> next, world |-> Scene_enter(w2, next),
                       raised |-> FALSE]
        ELSE [active_scene |-> next, world |-> w, raised |-> FALSE]

\* Lines 65-75, as a function of the world and the active scene: the new
\* active scene, the world after the calls, and whether a call was made on
\* None (AttributeError).
\* Scene change that calls exit only on a terminated outgoing scene.
scene_change_exit_when_terminated(w, current_scene) ==
    LET next == w.scenes[current_scene].next_scene
    IN  IF current_scene # next
        THEN LET w0 == [w EXCEPT !.previous_scene = current_scene]
                 w2 == IF w0.scenes[current_scene].terminated
                       THEN cleanup(Scene_exit(w0, current_scene), current_scene)
                       ELSE w0
             IN  IF next = None
                 THEN [active_scene |-> next, world |-> w2, raised |-> TRUE]
                 ELSE [active_scene |-> next, world |-> Scene_enter(w2, next),
                       raised |-> FALSE]
        ELSE [active_scene |-> next, world |-> w, raised |-> FALSE]

scene_change(w, current_scene) ==
    LET next == w.scenes[current_scene].next_scene
    IN  IF current_scene # next
        THEN LET w1 == Scene_exit([w EXCEPT !.previous_scene = current_scene],
                                  current_scene)
                 w2 == IF w1.scenes[current_scene].terminated
                       THEN cleanup(w1, current_scene)
                       ELSE w1
             IN  IF next = None
                 THEN [active_scene |-> next, world |-> w2, raised |-> TRUE]
                 ELSE [active_scene |-> next, world |-> Scene_enter(w2, next),
                       raised |-> FALSE]
        ELSE [active_scene |-> next, world |-> w, raised |-> FALSE]

SceneChange ==
    /\ pc = "scene_change"
    /\ LET r == scene_change(World, active_scene)
       IN  /\ active_scene' = r.active_scene
           /\ scenes' = r.world.scenes
           /\ previous_scene' = r.world.previous_scene
           /\ calls' = r.world.calls
           /\ pc' = IF r.raised THEN "error" ELSE "flip"
    /\ UNCHANGED <<running, pressed_keys, drained, filtered_events>>

\* Lines 78-79: the frame is presented and the clock ticks.  The locals of
\* the frame are dead from here on (lines 50-51 reassign them before any
\* use), so they are reset here instead of at the top of the loop.
Tick ==
    /\ pc = "flip"
    /\ pressed_keys' = {}
    /\ drained' = << >>
    /\ filtered_events' = << >>
    /\ calls' = << >>
    /\ pc' = "while"
    /\ UNCHANGED <<scenes, active_scene, previous_scene, running>>

\* Lines 48 and 81: the loop test fails and pygame.quit() is called.
Quit ==
    /\ pc = "while"
    /\ ~running
    /\ pc' = "done"
    /\ UNCHANGED <<scenes, active_scene, previous_scene, running, pressed_keys,
                   drained, filtered_events, calls>>

Next ==
    \/ EventLoop
    \/ ProcessInput
    \/ Update
    \/ Render
    \/ SceneChange
    \/ Tick
    \/ Quit

Spec == Init /\ [][Next]_vars

--------------------------------------------------------------------------
\* The driver over a registry whose PlayScene1 and EndScene (the scene
\* classes of src/scenes) are constructed with any keyword arguments.

SourceScenes == {"play1", "end"}

KwargsInit ==
    \E kw \in [SceneNames -> Kwargs] :
        /\ \A s \in SceneNames \ SourceScenes : kw[s] = GameKwargs[s]
        /\ InitWith(kw)

KwargsSpec == KwargsInit /\ [][Next]_vars

--------------------------------------------------------------------------
\* A scene on its own: the registry is constructed, its PlayScene1 or its
\* EndScene with any keyword arguments, and client code calls the methods
\* of that scene in any order.
\* active_scene names the object; calls is the log of the latest call.

SceneInit ==
    \E s \in SourceScenes, kw \in Kwargs :
        LET kws   == [GameKwargs EXCEPT ![s] = kw]
            blank == [scenes |-> [n \in SceneNames |-> NewScene(kws[n])],
                      previous_scene |-> Unset,
                      calls |-> << >>]
        IN  /\ scenes = construct(blank, RegistryOrder, kws).scenes
            /\ active_scene = s
    /\ previous_scene = Unset
    /\ running = TRUE
    /\ pressed_keys = {}
    /\ drained = << >>
    /\ filtered_events = << >>
    /\ calls = << >>
    /\ pc = "client"

Fresh == [scenes |-> scenes, previous_scene |-> previous_scene, calls |-> << >>]

Returned(w) ==
    /\ scenes' = w.scenes
    /\ calls' = w.calls
    /\ UNCHANGED <<active_scene, previous_scene, running, pressed_keys, drained, pc>>

CallEnter ==
    /\ pc = "client"
    /\ filtered_events' = << >>
    /\ Returned(Scene_enter(Fresh, active_scene))

CallExit ==
    /\ pc = "client"
    /\ filtered_events' = << >>
    /\ Returned(Scene_exit(Fresh, active_scene))

CallTerminate ==
    /\ pc = "client"
    /\ filtered_events' = << >>
    /\ Returned(Scene_terminate(Fresh, active_scene))

CallCleanup ==
    /\ pc = "client"
    /\ filtered_events' = << >>
    /\ Returned(cleanup(Fresh, active_scene))

CallProcessInput ==
    /\ pc = "client"
    /\ \E events \in EventLists :
          /\ filtered_events' = events
          /\ Returned(process_input(Fresh, active_scene, events))

SceneNext ==
    \/ CallEnter
    \/ CallExit
    \/ CallTerminate
    \/ CallCleanup
    \/ CallProcessInput

SceneSpec == SceneInit /\ [][SceneNext]_vars

--------------------------------------------------------------------------
\* Properties

Range(f) == {f[i] : i \in DOMAIN f}

\* enter() has just returned on s: the log ends with the call and with
\* what it called.
AfterEnter(s) ==
    \E i \in DOMAIN calls :
        /\ calls[i] = <<"enter", s>>
        /\ \A j \in (i + 1)..Len(calls) : calls[j] = <<"load_assets", s>>

\* C1: immediately after enter() returns on a scene, whatever its keyword
\* arguments and whatever was called on it before, its assets_loaded is
\* true and its next_scene is the scene itself.
C1_EnterPostcondition ==
    \A s \in SceneNames :
        AfterEnter(s) => scenes[s].assets_loaded /\ scenes[s].next_scene = s

\* An eager scene that was marked terminated by its input handling and
\* cleaned up is entered again, and reloads.
C1_Witness ==
    \E s \in SceneNames :
        /\ AfterEnter(s)
        /\ calls = << <<"enter", s>>, <<"load_assets", s>> >>
        /\ scenes[s].terminated
        /\ ~scenes[s].delay_asset_loading
        /\ scenes[s].loads = 1

\* C2: a scene constructed with delay_asset_loading false has load_assets
\* invoked once, at construction, and no enter() invokes it again unless
\* cleanup() ran in between: between two cleanups it is never loaded twice.
C2_EagerLoadedOnce ==
    \A s \in SceneNames :
        ~scenes[s].delay_asset_loading
            => scenes[s].ever_loaded /\ scenes[s].loads <= 1

\* C3: a scene constructed with delay_asset_loading true has load_assets
\* invoked neither at construction nor before its first enter(), and its
\* first enter() invokes it: such a scene has been loaded exactly when it
\* has been entered.
C3_LazyLoadedAtFirstEnter ==
    \A s \in SceneNames :
        scenes[s].delay_asset_loading
            => (scenes[s].ever_loaded <=> scenes[s].entered)

\* The first enter() of a lazy scene has just returned, having loaded.
C3_Witness ==
    \E s \in SceneNames :
        /\ scenes[s].delay_asset_loading
        /\ calls = << <<"enter", s>>, <<"load_assets", s>> >>
        /\ scenes[s].loads = 1
        /\ ~scenes[s].terminated
        /\ scenes[s].font_xl = "Font"

\* The number of calls of a method on a scene in the frame's log.
Count(method, s) == Cardinality({i \in DOMAIN calls : calls[i] = <<method, s>>})

\* C4: the driver never calls cleanup() on a scene whose
\* cleanup_on_terminate is false, whatever its terminated flag.
C4_NoCleanupAgainstPolicy ==
    \A s \in SceneNames :
        ~scenes[s].cleanup_on_terminate => <<"cleanup", s>> \notin Range(calls)

\* C5: when a scene with cleanup_on_terminate true leaves for another scene
\* with its terminated flag set, the frame's calls hold exit() on it, then
\* at once its one cleanup(), then at once enter() on the incoming scene.
C5_CleanupOnceAfterExit ==
    \A s \in SceneNames, i \in DOMAIN calls :
        (/\ pc = "flip"
         /\ calls[i] = <<"exit", s>>
         /\ scenes[s].cleanup_on_terminate
         /\ scenes[s].terminated)
        => /\ Len(calls) >= i + 2
           /\ calls[i + 1] = <<"cleanup", s>>
           /\ calls[i + 2] = <<"enter", active_scene>>
           /\ active_scene # s
           /\ Count("cleanup", s) = 1
           /\ Count("exit", s) = 1

\* play1, in its first activation, is finished by key-down RIGHT and leaves
\* for play2.
C5_Witness ==
    /\ pc = "flip"
    /\ ~scenes["special"].entered
    /\ ~scenes["end"].entered
    /\ scenes["play1"].cleanup_on_terminate
    /\ scenes["play1"].terminated
    /\ calls = << <<"process_input", "play1">>, <<"update", "play1">>,
                  <<"render", "play1">>, <<"exit", "play1">>,
                  <<"cleanup", "play1">>, <<"enter", "play2">>,
                  <<"load_assets", "play2">> >>

\* C6: when the active scene's next_scene is None at the scene change, the
\* loop ends normally: no exception is raised.
C6_AbsentSuccessorEndsNormally ==
    active_scene = None => pc # "error"

\* C7: a frame in which the active scene's next_scene is still the scene
\* itself after process_input, update and render makes no exit(), cleanup()
\* or enter() call and keeps the active scene.
C7_NoTransitionNoCalls ==
    [][(pc = "scene_change" /\ scenes[active_scene].next_scene = active_scene)
        => /\ active_scene' = active_scene
           /\ calls' = calls
           /\ scenes' = scenes
           /\ previous_scene' = previous_scene
           /\ pc' = "flip"]_vars

\* A frame that delivered events to the scene and ended without a
\* transition.
C7_Witness ==
    /\ pc = "flip"
    /\ filtered_events # << >>
    /\ active_scene \in SceneNames
    /\ calls = << <<"process_input", active_scene>>, <<"update", active_scene>>,
                  <<"render", active_scene>> >>

\* C8: no event of the list passed to process_input is a quit signal: none
\* has type QUIT, and none was drained with a Ctrl key and Q held.
C8_QuitSignalsFiltered ==
    \A i \in DOMAIN filtered_events :
        /\ filtered_events[i].type # "QUIT"
        /\ ~(/\ ("K_LCTRL" \in pressed_keys \/ "K_RCTRL" \in pressed_keys)
             /\ "K_q" \in pressed_keys)

\* process_input was called in a frame that drained a QUIT event and
\* another event.
C8_Witness ==
    /\ pc = "update"
    /\ Len(drained) = 2
    /\ \E i \in DOMAIN drained : drained[i].type = "QUIT"
    /\ Len(filtered_events) = 1

QuitDrained == \E i \in DOMAIN drained : drained[i].type = "QUIT"

\* C9, as claimed: once a QUIT event has been drained in a frame, neither
\* update() nor render() is called any more.
C9_NoCallsAfterQuit ==
    QuitDrained =>
        \A s \in SceneNames :
            <<"update", s>> \notin Range(calls) /\ <<"render", s>> \notin Range(calls)

\* C9, amended: a frame that drains a QUIT event clears running, still calls
\* process_input, update and render once each on the active scene, and is
\* the last frame: running is false only in a frame that drained a quit
\* signal, and in the states after it.
C9_QuitEndsLoopAfterFrame ==
    /\ QuitDrained => ~running
    /\ (~running /\ pc \notin {"while", "done"}) =>
           \E i \in DOMAIN drained : is_quit_event(drained[i], pressed_keys)
    /\ (QuitDrained /\ pc \in {"scene_change", "flip"}) =>
           \E s \in SceneNames :
               /\ Len(calls) >= 3
               /\ SubSeq(calls, 1, 3) = << <<"process_input", s>>, <<"update", s>>,
                                          <<"render", s>> >>
               /\ Count("update", s) = 1
               /\ Count("render", s) = 1

\* The frame that drained a QUIT event has run to its end.
C9_Witness ==
    /\ pc = "flip"
    /\ QuitDrained
    /\ ~running
    /\ Len(calls) >= 3

\* C10: a frame in which the active scene has set next_scene to another
\* registered scene T ends with T active, T.assets_loaded true and
\* T.next_scene T.
C10_TransitionEntersTarget ==
    [][(pc = "scene_change"
        /\ scenes[active_scene].next_scene \in SceneNames \ {active_scene})
        => LET T == scenes[active_scene].next_scene
           IN  /\ pc' = "flip"
               /\ active_scene' = T
               /\ scenes'[T].assets_loaded
               /\ scenes'[T].next_scene = T]_vars

\* The first transition of a run: key-down SPACE in the title scene.
C10_Witness ==
    /\ pc = "flip"
    /\ filtered_events = << [type |-> "KEYDOWN", key |-> "K_SPACE"] >>
    /\ previous_scene = "title"
    /\ active_scene = "play1"
    /\ scenes["play1"].assets_loaded
    /\ scenes["play1"].next_scene = "play1"
    /\ <<"enter", "play1">> \in Range(calls)


\* C11: a scene with cleanup_on_terminate false that has been entered and
\* is not marked terminated keeps its assets through every step, its exit
\* and its re-entry included: assets_loaded stays true and load_assets is
\* not invoked on it again.
C11_WarmSceneNotReloaded ==
    [][\A s \in SceneNames :
          (/\ ~scenes[s].cleanup_on_terminate
           /\ scenes[s].entered
           /\ ~scenes[s].terminated)
          => /\ scenes'[s].assets_loaded
             /\ scenes'[s].loads = scenes[s].loads
             /\ <<"load_assets", s>> \notin Range(calls')]_vars

\* The special scene is entered again after it was left for the scene it
\* came from: enter() is the frame's last call, with no load_assets.
C11_Witness ==
    /\ pc = "flip"
    /\ active_scene = "special"
    /\ ~scenes["special"].cleanup_on_terminate
    /\ ~scenes["special"].terminated
    /\ scenes["special"].assets_loaded
    /\ Len(calls) = 5
    /\ calls[4] = <<"exit", previous_scene>>
    /\ calls[5] = <<"enter", "special">>


\* C12: whenever the driver is about to call process_input, update or
\* render, the scene it calls it on is a registered scene whose
\* assets_loaded is true and whose font is resident.
C12_AssetsLoadedWhenDriven ==
    pc \in {"process_input", "update", "render"}
        => /\ active_scene \in SceneNames
           /\ scenes[active_scene].assets_loaded
           /\ scenes[active_scene].font_xl = "Font"

\* play1 is about to be rendered in a later activation, after it was
\* cleaned up and loaded again.
C12_Witness ==
    /\ pc = "render"
    /\ active_scene = "play1"
    /\ scenes["play1"].terminated
    /\ scenes["play1"].loads = 1
    /\ scenes["play1"].assets_loaded
    /\ calls = << <<"process_input", "play1">>, <<"update", "play1">> >>


\* C13: assets_loaded is true exactly when the scene's resources are
\* resident (stated for the scenes whose classes are in src/scenes, whose
\* resource is font_xl).
C13_FlagIffResident ==
    \A s \in SourceScenes :
        scenes[s].assets_loaded <=> scenes[s].font_xl = "Font"


\* The three calls of a frame on scene s, in order.
Driven(s) == << <<"process_input", s>>, <<"update", s>>, <<"render", s>> >>

\* C14: in each frame process_input, update and render are called once
\* each, in that order, on the scene that is active when the frame starts;
\* nothing else is called before the scene change, whose calls (exit,
\* cleanup, enter, load_assets) all come after render.
C14_FrameCallOrder ==
    /\ pc = "process_input" => calls = << >>
    /\ pc = "update" => calls = SubSeq(Driven(active_scene), 1, 1)
    /\ pc = "render" => calls = SubSeq(Driven(active_scene), 1, 2)
    /\ pc = "scene_change" => calls = Driven(active_scene)
    /\ pc \in {"flip", "error"} =>
          LET s == IF Len(calls) > 3 THEN previous_scene ELSE active_scene
          IN  /\ Len(calls) >= 3
              /\ SubSeq(calls, 1, 3) = Driven(s)
              /\ \A i \in 4..Len(calls) :
                    calls[i][1] \in {"exit", "cleanup", "enter", "load_assets"}

\* A frame with a transition has reached its end: its first three calls
\* were made on the outgoing scene.
C14_Witness ==
    /\ pc = "flip"
    /\ active_scene # previous_scene
    /\ Len(calls) > 3
    /\ SubSeq(calls, 1, 3) = Driven(previous_scene)
    /\ calls[4] = <<"exit", previous_scene>>


\* C15: every scene is constructed with terminated false, and the flag of
\* a scene changes only in the step that calls process_input on that
\* scene, and only to true.
C15_TerminatedOnlyByOwnInput ==
    /\ \A s \in SceneNames : ~scenes[s].terminated
    /\ [][\A s \in SceneNames :
             scenes'[s].terminated # scenes[s].terminated
             => /\ pc = "process_input"
                /\ s = active_scene
                /\ scenes'[s].terminated]_vars

\* The end scene has just marked itself terminated on key-down RIGHT.
C15_Witness ==
    /\ pc = "update"
    /\ active_scene = "end"
    /\ filtered_events = << [type |-> "KEYDOWN", key |-> "K_RIGHT"] >>
    /\ scenes["end"].terminated
    /\ scenes["end"].next_scene = "title"
    /\ calls = << <<"process_input", "end">> >>


\* The calls a step appends to the log of the frame.
NewCalls == SubSeq(calls', Len(calls) + 1, Len(calls'))

Times(log, call) == Cardinality({i \in 1..Len(log) : log[i] = call})

\* C16: in the step that changes from the active scene to a different
\* registered scene, the first call made is exit on the outgoing scene and
\* it is made exactly once, whatever the outgoing scene's terminated flag;
\* when that flag is false, cleanup is not called on the outgoing scene,
\* its assets_loaded flag is unchanged, and enter is called exactly once on
\* the incoming scene.
C16_ExitFirstOnEveryTransition ==
    [][(/\ pc = "scene_change"
        /\ scenes[active_scene].next_scene \in SceneNames \ {active_scene})
       => LET out == active_scene
              inc == scenes[out].next_scene
          IN  /\ NewCalls # << >>
              /\ NewCalls[1] = <<"exit", out>>
              /\ Times(NewCalls, <<"exit", out>>) = 1
              /\ ~scenes[out].terminated
                 => /\ Times(NewCalls, <<"cleanup", out>>) = 0
                    /\ scenes'[out].assets_loaded = scenes[out].assets_loaded
                    /\ Times(NewCalls, <<"enter", inc>>) = 1]_vars

\* play1 has been left for the special scene on key-down UP without being
\* terminated: exit on play1, then enter on special, play1 still loaded.
C16_Witness ==
    /\ pc = "flip"
    /\ previous_scene = "play1"
    /\ active_scene = "special"
    /\ ~scenes["play1"].terminated
    /\ scenes["play1"].assets_loaded
    /\ Len(calls) >= 5
    /\ calls[4] = <<"exit", "play1">>
    /\ calls[5] = <<"enter", "special">>
    /\ Times(calls, <<"cleanup", "play1">>) = 0


--------------------------------------------------------------------------
\* The single-file driver, src/scene_manager.py: MyGame with TitleScene,
\* PlayScene and EndScene objects constructed anew on every transition.
\* Under LegacySpec the variable scenes is the heap of live scene objects
\* (object id -> class and next_scene), active_scene is an object id or
\* None, and previous_scene and running are not used.

\* Identities for the scene objects alive at once: the active one, the one
\* its next_scene refers to, and the one under construction that replaces
\* it.  An object that can no longer be reached gives its identity back.
ObjectIds == {"o1", "o2", "o3"}

\* The class each scene class constructs on key-down SPACE.
LegacySuccessor ==
    [TitleScene |-> "PlayScene", PlayScene |-> "EndScene", EndScene |-> "TitleScene"]

\* Scene.__init__ through a subclass constructor: a new object whose
\* next_scene is itself.
Legacy_Scene_init(heap, class) ==
    LET id == CHOOSE i \in ObjectIds : i \notin DOMAIN heap
    IN  [id   |-> id,
         heap |-> [o \in DOMAIN heap \cup {id} |->
                      IF o = id THEN [class |-> class, next_scene |-> id]
                      ELSE heap[o]]]

\* The objects that can still be reached from the object root.
Legacy_reachable(heap, root) ==
    [o \in {root} \cup ({heap[root].next_scene} \ {None}) |-> heap[o]]

\* terminate() of every scene class: self.next_scene = None.
Legacy_terminate(w, o) ==
    [w EXCEPT !.heap  = Legacy_reachable([@ EXCEPT ![o].next_scene = None], o),
              !.calls = Append(@, <<"terminate", o>>)]

\* The body of the loop of process_input, the same in the three classes but
\* for the class constructed.
Legacy_on_event(heap, o, event) ==
    IF event.type = "KEYDOWN" /\ event.key = "K_SPACE"
    THEN LET new == Legacy_Scene_init(heap, LegacySuccessor[heap[o].class])
         IN  Legacy_reachable([new.heap EXCEPT ![o].next_scene = new.id], o)
    ELSE heap

RECURSIVE Legacy_for_event_in(_, _, _)
Legacy_for_event_in(heap, o, events) ==
    IF events = << >> THEN heap
    ELSE Legacy_for_event_in(Legacy_on_event(heap, o, Head(events)), o, Tail(events))

\* TitleScene.process_input
Legacy_TitleScene_process_input(w, o, events) ==
    [w EXCEPT !.heap  = Legacy_for_event_in(@, o, events),
              !.calls = Append(@, <<"process_input", o>>)]

\* PlayScene.process_input
Legacy_PlayScene_process_input(w, o, events) ==
    [w EXCEPT !.heap  = Legacy_for_event_in(@, o, events),
              !.calls = Append(@, <<"process_input", o>>)]

\* EndScene.process_input
Legacy_EndScene_process_input(w, o, events) ==
    [w EXCEPT !.heap  = Legacy_for_event_in(@, o, events),
              !.calls = Append(@, <<"process_input", o>>)]

Legacy_process_input(w, o, events) ==
    CASE w.heap[o].class = "TitleScene" -> Legacy_TitleScene_process_input(w, o, events)
      [] w.heap[o].class = "PlayScene"  -> Legacy_PlayScene_process_input(w, o, events)
      [] OTHER                          -> Legacy_EndScene_process_input(w, o, events)

\* MyGame.is_quit_event
MyGame_is_quit_event(event, keys) ==
    LET x_out == event.type = "QUIT"
        ctrl  == ("K_LCTRL" \in keys) \/ ("K_RCTRL" \in keys)
        q     == "K_q" \in keys
    IN  x_out \/ (ctrl /\ q)

\* The "for event in pygame.event.get()" loop of MyGame.run: a quit signal
\* calls terminate() on the active scene, any other event is kept.
RECURSIVE MyGame_for_event_in_queue(_, _, _, _)
MyGame_for_event_in_queue(loc, o, events, keys) ==
    IF events = << >> THEN loc
    ELSE LET event == Head(events)
             next  == IF MyGame_is_quit_event(event, keys)
                      THEN LET w == Legacy_terminate(
                                       [heap |-> loc.heap, calls |-> loc.calls], o)
                           IN  [loc EXCEPT !.heap = w.heap, !.calls = w.calls]
                      ELSE [loc EXCEPT !.filtered_events = Append(@, event)]
         IN  MyGame_for_event_in_queue(next, o, Tail(events), keys)

LegacyWorld == [heap |-> scenes, calls |-> calls]

\* The main block: start_scene = TitleScene(); MyGame(start_scene).run()
LegacyInit ==
    /\ LET start_scene == Legacy_Scene_init(<< >>, "TitleScene")
       IN  /\ scenes = start_scene.heap
           /\ active_scene = start_scene.id
    /\ previous_scene = Unset
    /\ running = TRUE
    /\ pressed_keys = {}
    /\ drained = << >>
    /\ filtered_events = << >>
    /\ calls = << >>
    /\ pc = "while"

\* Lines 140-149: the loop test succeeds, the key state is read, the event
\* queue is drained and filtered.
LegacyEventLoop ==
    /\ pc = "while"
    /\ active_scene # None
    /\ \E keys \in SUBSET HeldKeys, events \in EventLists :
          LET loc == MyGame_for_event_in_queue(
                        [heap |-> scenes, calls |-> << >>, filtered_events |-> << >>],
                        active_scene, events, keys)
          IN  /\ pressed_keys' = keys
              /\ drained' = events
              /\ scenes' = loc.heap
              /\ calls' = loc.calls
              /\ filtered_events' = loc.filtered_events
    /\ pc' = "process_input"
    /\ UNCHANGED <<active_scene, previous_scene, running>>

\* Line 152
LegacyProcessInput ==
    /\ pc = "process_input"
    /\ LET w == Legacy_process_input(LegacyWorld, active_scene, filtered_events)
       IN  /\ scenes' = w.heap
           /\ calls' = w.calls
    /\ pc' = "update"
    /\ UNCHANGED <<active_scene, previous_scene, running, pressed_keys,
                   drained, filtered_events>>

\* Line 153: update() is pass in the three classes.
LegacyUpdate ==
    /\ pc = "update"
    /\ calls' = Append(calls, <<"update", active_scene>>)
    /\ pc' = "render"
    /\ UNCHANGED <<scenes, active_scene, previous_scene, running, pressed_keys,
                   drained, filtered_events>>

\* Line 154: render() draws and changes no attribute.
LegacyRender ==
    /\ pc = "render"
    /\ calls' = Append(calls, <<"render", active_scene>>)
    /\ pc' = "advance"
    /\ UNCHANGED <<scenes, active_scene, previous_scene, running, pressed_keys,
                   drained, filtered_events>>

\* Line 155: self.active_scene = self.active_scene.next_scene
LegacyAdvance ==
    /\ pc = "advance"
    /\ LET next == scenes[active_scene].next_scene
       IN  /\ active_scene' = next
           /\ scenes' = IF next = None THEN << >> ELSE Legacy_reachable(scenes, next)
    /\ pc' = "flip"
    /\ UNCHANGED <<previous_scene, running, pressed_keys, drained,
                   filtered_events, calls>>

\* Lines 158-159: the frame is presented and the clock ticks.  The locals
\* of the frame are dead from here on and are reset.
LegacyTick ==
    /\ pc = "flip"
    /\ pressed_keys' = {}
    /\ drained' = << >>
    /\ filtered_events' = << >>
    /\ calls' = << >>
    /\ pc' = "while"
    /\ UNCHANGED <<scenes, active_scene, previous_scene, running>>

\* Lines 140 and 167: the loop test fails, run() returns and pygame.quit()
\* is called.
LegacyQuit ==
    /\ pc = "while"
    /\ active_scene = None
    /\ pc' = "done"
    /\ UNCHANGED <<scenes, active_scene, previous_scene, running, pressed_keys,
                   drained, filtered_events, calls>>

LegacyNext ==
    \/ LegacyEventLoop
    \/ LegacyProcessInput
    \/ LegacyUpdate
    \/ LegacyRender
    \/ LegacyAdvance
    \/ LegacyTick
    \/ LegacyQuit

LegacySpec == LegacyInit /\ [][LegacyNext]_vars

\* A quit signal is among the events drained in this frame.
LegacyQuitDrained ==
    \E i \in 1..Len(drained) : MyGame_is_quit_event(drained[i], pressed_keys)

\* C18: in MyGame.run, at the end of a frame in which a quit signal was
\* drained, the active scene is None, so the loop test fails next.
C18_LegacyQuitEndsLoop ==
    (pc = "flip" /\ LegacyQuitDrained) => active_scene = None


\* A drained event that is not a quit signal under the frame's key state.
NotQuitSignal(event) ==
    /\ event.type # "QUIT"
    /\ ~(/\ ("K_LCTRL" \in pressed_keys \/ "K_RCTRL" \in pressed_keys)
         /\ "K_q" \in pressed_keys)

\* C19: the list handed to process_input is the subsequence of the frame's
\* drained events that are not quit signals, in arrival order.
C19_FilteredIsNonQuitSubsequence ==
    pc = "process_input" => filtered_events = SelectSeq(drained, NotQuitSignal)

\* Two different non-quit events drained with q held but no ctrl key: both
\* are about to be passed on, in the order they arrived.
C19_Witness ==
    /\ pc = "process_input"
    /\ pressed_keys = {"K_q"}
    /\ drained = << [type |-> "KEYDOWN", key |-> "K_UP"],
                    [type |-> "KEYUP", key |-> "K_RIGHT"] >>
    /\ filtered_events = drained


\* C20: when a frame has changed scenes and the outgoing scene did not set
\* terminated during the activation that has just ended, cleanup was not
\* called on it and its assets are still loaded.
C20_CleanupOnlyIfTerminatedThisActivation ==
    (/\ pc \in {"flip", "error"}
     /\ <<"exit", previous_scene>> \in Range(calls)
     /\ ~scenes[previous_scene].marked)
    => /\ <<"cleanup", previous_scene>> \notin Range(calls)
       /\ scenes[previous_scene].assets_loaded


\* Ctrl (either one) and Q are held in the frame's key-state snapshot.
CtrlQHeld ==
    /\ ("K_LCTRL" \in pressed_keys \/ "K_RCTRL" \in pressed_keys)
    /\ "K_q" \in pressed_keys

InFrame == pc \in {"process_input", "update", "render", "scene_change", "flip"}

\* C21: (a) running changes only in the step that drains the event queue,
\* only to false, and only when an event was drained; (b) in a frame with
\* Ctrl and Q held and nothing drained, running stays true; (c) in a frame
\* with Ctrl and Q held and something drained, the list for process_input
\* is empty and running is false; (d) with running false at the loop test
\* the only step is the exit of the loop.
C21_QuitOnlyOnDrainedEvent ==
    /\ [](InFrame /\ CtrlQHeld /\ drained = << >> => running)
    /\ [](InFrame /\ CtrlQHeld /\ drained # << >>
             => filtered_events = << >> /\ ~running)
    /\ [][/\ running' # running
             => /\ pc = "while" /\ pc' = "process_input"
                /\ running /\ ~running'
                /\ drained' # << >>
          /\ (pc = "while" /\ ~running) => pc' = "done"]_vars

\* A whole frame has run with Ctrl and Q held and an empty event queue, and
\* the loop is about to go round again.
C21_Witness ==
    /\ pc = "flip"
    /\ CtrlQHeld
    /\ drained = << >>
    /\ running
    /\ calls = Driven(active_scene)

====
